---------------------------- MODULE Spec2Model ----------------------------
(***************************************************************************)
(* Code Amalgamator (combine.py): the selection-to-document pipeline and   *)
(* the GUI state it reads.  Strings are sequences of one-character         *)
(* strings, so that strip/lower/split/splitext are computed as the Python  *)
(* code computes them.  Paths are such strings with "/" as separator.      *)
(***************************************************************************)
EXTENDS Integers, Sequences, FiniteSets, TLC

(***************************************************************************)
(* String helpers (Python str methods and os.path functions).              *)
(***************************************************************************)

\* the characters str.lower() changes, among those the model's names use
Lower(c) ==
  CASE c = "J" -> "j"
    [] c = "M" -> "m"
    [] c = "S" -> "s"
    [] c = "T" -> "t"
    [] c = "X" -> "x"
    [] OTHER -> c

\* str.lower()
lower(s) == [i \in 1..Len(s) |-> Lower(s[i])]

RECURSIVE lstrip(_)
lstrip(s) == IF s # <<>> /\ Head(s) = " " THEN lstrip(Tail(s)) ELSE s

RECURSIVE rstrip(_)
rstrip(s) ==
  IF s # <<>> /\ s[Len(s)] = " " THEN rstrip(SubSeq(s, 1, Len(s) - 1)) ELSE s

\* str.strip()
strip(s) == rstrip(lstrip(s))

\* str.startswith(c) for a one-character prefix
startswith(s, c) == s # <<>> /\ Head(s) = c

\* index of the last occurrence of c in s, 0 when there is none (str.rfind + 1)
RECURSIVE rfind(_, _)
rfind(s, c) ==
  IF s = <<>> THEN 0
  ELSE IF s[Len(s)] = c THEN Len(s)
  ELSE rfind(SubSeq(s, 1, Len(s) - 1), c)

\* index of the first occurrence of c in s, 0 when there is none
RECURSIVE find(_, _)
find(s, c) ==
  IF s = <<>> THEN 0
  ELSE IF Head(s) = c THEN 1
  ELSE LET r == find(Tail(s), c) IN IF r = 0 THEN 0 ELSE r + 1

\* str.split(c): the pieces between the occurrences of c, empty ones kept
RECURSIVE split(_, _)
split(s, c) ==
  LET i == find(s, c)
  IN IF i = 0 THEN <<s>>
     ELSE <<SubSeq(s, 1, i - 1)>> \o split(SubSeq(s, i + 1, Len(s)), c)

\* ", ".join(parts)
RECURSIVE join(_)
join(parts) ==
  IF parts = <<>> THEN <<>>
  ELSE IF Len(parts) = 1 THEN parts[1]
  ELSE parts[1] \o <<",", " ">> \o join(Tail(parts))

\* os.path.join(root, name)
path_join(root, name) == root \o <<"/">> \o name

\* os.path.basename(path)
basename(p) == SubSeq(p, rfind(p, "/") + 1, Len(p))

\* os.path.splitext(p)[1]: the text from the last dot of the last component,
\* unless only dots precede that dot in the component (".env" has no extension)
splitext(p) ==
  LET sepIndex == rfind(p, "/")
      dotIndex == rfind(p, ".")
  IN IF dotIndex > sepIndex
        /\ \E k \in (sepIndex + 1)..(dotIndex - 1) : p[k] # "."
     THEN SubSeq(p, dotIndex, Len(p))
     ELSE <<>>

\* the elements of a sequence
Range(s) == {s[i] : i \in 1..Len(s)}


(***************************************************************************)
(* Configuration (module globals of combine.py), cut down to the entries   *)
(* the modelled file system uses.                                          *)
(***************************************************************************)

ext_py == <<".", "p", "y">>
ext_js == <<".", "j", "s">>
ext_svg == <<".", "s", "v", "g">>
ext_txt == <<".", "t", "x", "t">>
ext_png == <<".", "p", "n", "g">>

\* INCLUDE_EXTENSIONS as the module is loaded ('.svg' is in it and in the
\* binary set below, as in the source)
DefaultIncludeExtensions == <<ext_py, ext_js, ext_svg>>

\* BINARY_EXTENSIONS
BINARY_EXTENSIONS == {ext_png, ext_svg}

\* f.read(1024) in is_binary_file
ChunkSize == 1024

(***************************************************************************)
(* The file system.  A file system maps a path to what is there:           *)
(*   [kind |-> "dir", names |-> the listing, in os.listdir order]          *)
(*   [kind |-> "file", firstNul |-> position of the first null byte,       *)
(*    0 when there is none, readable |-> whether open(path, 'rb') works]   *)
(***************************************************************************)

Dir(names) == [kind |-> "dir", names |-> names]
File(firstNul, readable) ==
  [kind |-> "file", firstNul |-> firstNul, readable |-> readable]

\* os.path.isfile / os.path.isdir
isfile(fs, p) == p \in DOMAIN fs /\ fs[p].kind = "file"
isdir(fs, p) == p \in DOMAIN fs /\ fs[p].kind = "dir"

(***************************************************************************)
(* Classifier.                                                             *)
(***************************************************************************)

\* a plausible slip: the content sniffing alone, the extension test left out
is_binary_file_no_ext(fs, file_path) ==
  IF ~fs[file_path].readable THEN TRUE
  ELSE fs[file_path].firstNul >= 1 /\ fs[file_path].firstNul <= ChunkSize

\* is_binary_file(file_path); only called on regular files
is_binary_file(fs, file_path) ==
  LET ext == splitext(lower(file_path))
  IN IF ext \in BINARY_EXTENSIONS THEN TRUE
     ELSE IF ~fs[file_path].readable THEN TRUE          \* except Exception
     ELSE IF fs[file_path].firstNul >= 1 /\ fs[file_path].firstNul <= ChunkSize
          THEN TRUE
     ELSE FALSE

\* should_include_file(file_path), the global INCLUDE_EXTENSIONS it reads
\* made a parameter
should_include_file(fs, file_path, include_extensions) ==
  IF ~isfile(fs, file_path) THEN FALSE
  ELSE IF is_binary_file(fs, file_path) THEN FALSE
  ELSE IF include_extensions = {} THEN TRUE
  ELSE splitext(lower(file_path)) \in include_extensions

(***************************************************************************)
(* The project directory the model runs in.                                *)
(***************************************************************************)

n_src == <<"s", "r", "c">>
n_lib == <<"l", "i", "b">>
n_build == <<"b", "u", "i", "l", "d">>
n_git == <<".", "g", "i", "t">>
n_cache == <<".", "c">>
n_node_modules == <<"n", "o", "d", "e", "_", "m", "o", "d", "u", "l", "e", "s">>
n_pkg == <<"p", "k", "g">>
n_script == <<"c", "o", "m", "b", "i", "n", "e", ".", "p", "y">>

\* a file name holding a byte the file system encoding cannot decode: Python
\* keeps it as a lone surrogate, which the UTF-8 output file cannot encode
BadChar == "\\udcff"

f_a == <<"a">> \o ext_py
f_b == <<"b">> \o ext_js
f_m == <<"M", ".", "J", "S">>
f_z == <<"z">> \o ext_js
f_i == <<"i">> \o ext_svg
f_u == <<"u">> \o ext_py
f_e == <<"e">> \o ext_py
f_g == <<"g">> \o ext_py
f_c == <<"c">> \o ext_js
f_d == <<"d">> \o ext_py
f_bad == <<BadChar>> \o ext_txt

\* the current directory, '.'
CurDir == <<".">>

\* what the OS does with a leading "./"
resolve(p) ==
  IF Len(p) > 2 /\ p[1] = "." /\ p[2] = "/" THEN SubSeq(p, 3, Len(p)) ELSE p

Fs ==
  (CurDir :> Dir(<<n_src, f_i, n_git, f_a, n_lib, n_script, n_build>>))
  @@ (f_a :> File(0, TRUE))
  @@ (f_i :> File(0, TRUE))
  @@ (n_script :> File(0, TRUE))
  @@ (n_git :> Dir(<<f_d>>))
  @@ (path_join(n_git, f_d) :> File(0, TRUE))
  @@ (n_src :> Dir(<<n_node_modules, f_b, f_z, n_cache, f_m, f_bad>>))
  @@ (path_join(n_src, f_b) :> File(0, TRUE))
  @@ (path_join(n_src, f_z) :> File(5, TRUE))
  @@ (path_join(n_src, f_m) :> File(0, TRUE))
  @@ (path_join(n_src, f_bad) :> File(0, TRUE))
  @@ (path_join(n_src, n_cache) :> Dir(<<f_d>>))
  @@ (path_join(path_join(n_src, n_cache), f_d) :> File(0, TRUE))
  @@ (path_join(n_src, n_node_modules) :> Dir(<<n_pkg>>))
  @@ (path_join(path_join(n_src, n_node_modules), n_pkg) :> Dir(<<f_c>>))
  @@ (path_join(path_join(path_join(n_src, n_node_modules), n_pkg), f_c)
        :> File(0, TRUE))
  @@ (n_lib :> Dir(<<f_e, f_u>>))
  @@ (path_join(n_lib, f_e) :> File(0, TRUE))
  @@ (path_join(n_lib, f_u) :> File(0, FALSE))
  @@ (n_build :> Dir(<<f_g>>))
  @@ (path_join(n_build, f_g) :> File(2000, TRUE))

\* os.listdir(path)
listdir(fs, p) == fs[resolve(p)].names

(***************************************************************************)
(* sorted(): Python orders strings by code point.                          *)
(***************************************************************************)

\* the model's characters in code point order
Alphabet ==
  <<" ", ",", ".", "/", "J", "M", "S", "T", "X", "_", "a", "b", "c", "d", "e",
    "g", "i", "j", "k", "l", "m", "n", "o", "p", "r", "s", "t", "u", "v", "x",
    "y", "z", BadChar>>

Ord(c) == find(Alphabet, c)

\* a < b for strings
RECURSIVE Less(_, _)
Less(a, b) ==
  IF b = <<>> THEN FALSE
  ELSE IF a = <<>> THEN TRUE
  ELSE IF Head(a) = Head(b) THEN Less(Tail(a), Tail(b))
  ELSE Ord(Head(a)) < Ord(Head(b))

\* sorted(S) for a set of strings
RECURSIVE sorted(_)
sorted(S) ==
  IF S = {} THEN <<>>
  ELSE LET m == CHOOSE x \in S : \A y \in S \ {x} : Less(x, y)
       IN <<m>> \o sorted(S \ {m})

(***************************************************************************)
(* Enumerator.                                                             *)
(***************************************************************************)

\* get_subdirectories(path, ignore_dirs)
get_subdirectories(fs, path, ignore_dirs) ==
  sorted({ item \in Range(listdir(fs, path)) :
             /\ isdir(fs, resolve(path_join(path, item)))
             /\ item \notin ignore_dirs
             /\ ~startswith(item, ".") })

\* ignore_files in get_root_files; script_name is this program's own file
ignore_files == {n_script}

\* get_root_files(path)
get_root_files(fs, path, include_extensions) ==
  sorted({ item \in Range(listdir(fs, path)) :
             /\ isfile(fs, resolve(path_join(path, item)))
             /\ item \notin ignore_files
             /\ ~startswith(item, ".")
             /\ should_include_file(fs, resolve(path_join(path, item)),
                                    include_extensions) })

(***************************************************************************)
(* The entry fields and what the program reads from them.                  *)
(***************************************************************************)

\* default_ignores in create_widgets
default_ignores == join(<<n_git, n_node_modules, n_build>>)

\* default_extensions in create_widgets
default_extensions == join(DefaultIncludeExtensions)

\* get_ignore_set(), of the text of the ignore entry
get_ignore_set(text) ==
  { strip(d) : d \in { x \in Range(split(text, ",")) : strip(x) # <<>> } }

\* get_extension_set(), of the text of the extension entry
get_extension_set(text) ==
  LET extensions ==
        { lower(strip(e)) :
            e \in { x \in Range(split(text, ",")) : strip(x) # <<>> } }
  IN { IF startswith(ext, ".") THEN ext ELSE <<".">> \o ext : ext \in extensions }

\* the prefixes of the list items
DIR_PREFIX == <<" ", "[", "D", "I", "R", "]", " ">>
FILE_PREFIX == <<" ", "[", "F", "I", "L", "E", "]", " ">>
NO_ITEMS == <<" ", "N", "o", " ", "i", "t", "e", "m", "s">>

\* item.startswith(prefix)
has_prefix(item, prefix) ==
  Len(item) >= Len(prefix) /\ SubSeq(item, 1, Len(prefix)) = prefix

\* the texts the user may type into the entries
IgnoreTexts ==
  { default_ignores,
    <<" ">> \o n_lib \o <<" ", ",", ",">> \o n_node_modules }
ExtensionTexts ==
  { default_extensions,
    <<>>,
    <<" ", "J", "S", ",", "t", "x", "t">> }

(***************************************************************************)
(* Bounds of the model.                                                    *)
(***************************************************************************)

\* edits of the two entry fields in one behaviour
MaxEdits == 1
\* failures of the environment (output file, getcwd, os.remove) in one run
MaxFaults == 2
\* list items the user selects
MaxSelected == 2

(***************************************************************************)
(* State.                                                                  *)
(***************************************************************************)

VARIABLES
  ignore_dirs_var,        \* text of the "Ignored Directories" entry
  extensions_var,         \* text of the "Include only these extensions" entry
  INCLUDE_EXTENSIONS,     \* the module global, as the set of its elements
  item_listbox,           \* the items of the list, in order
  selection,              \* the selected indices of the list
  pc,                     \* where the worker thread of run_combination is
  selected_items,         \* run_combination's locals ...
  ignore_set,
  output_filepath,
  item_index,             \* position of "for item in selected_items"
  walk_stack,             \* directories os.walk has still to yield
  walk_files,             \* files of the yielded directory still to visit
  outfile,                \* what was written to the output file, in order
  total_files_processed,
  total_errors,
  error_log,
  outcome,                \* the dialog / status the run ended in
  file_exists,            \* whether the output file exists on disk
  run_include,            \* history: INCLUDE_EXTENSIONS when the run started
  decisions,              \* history: the should_include_file results of the run
  visited,                \* history: the directories os.walk yielded
  processed_paths,        \* history: the paths counted in total_files_processed
  raised,                 \* history: per-file exceptions raised in the try blocks
  sink_failed,            \* history: an open/write/close of the output failed
  remove_failed,          \* history: os.remove of the output file failed
  faults,                 \* environment failures so far
  edits,                  \* entry edits so far
  cls_fs,                 \* classifier alone: the file system it looks at,
  cls_path,               \*   the path it is asked about,
  cls_include,            \*   INCLUDE_EXTENSIONS,
  cls_result,             \*   and what should_include_file returned
  rd_bytes,               \* content reader alone: the bytes of the file,
  rd_open,                \*   whether each of its six open() calls works,
  rd_result,              \*   and what read_file_safely returned
  combine_button,         \* threads of the window: state of the Combine button,
  progress,               \*   whether the progress bar is running,
  after_queue,            \*   the root.after(0, ...) callbacks still to run,
  dialogs,                \*   the modal dialogs that are open, innermost last,
  threads                 \*   and every worker thread started so far

gui_vars ==
  <<ignore_dirs_var, extensions_var, INCLUDE_EXTENSIONS, item_listbox, selection,
    edits>>
run_vars ==
  <<pc, selected_items, ignore_set, output_filepath, item_index, walk_stack,
    walk_files, outfile, total_files_processed, total_errors, error_log, outcome,
    file_exists, run_include, decisions, visited, processed_paths, raised,
    sink_failed, remove_failed, faults>>
cls_vars == <<cls_fs, cls_path, cls_include, cls_result>>
rd_vars == <<rd_bytes, rd_open, rd_result>>
app_vars == <<combine_button, progress, after_queue, dialogs, threads>>

vars == <<gui_vars, run_vars, cls_vars, rd_vars, app_vars>>

(***************************************************************************)
(* The interactive thread: the entries, "Refresh List", the list.          *)
(***************************************************************************)

\* populate_list, lines 318-321: the global is replaced only by a non-empty set
updated_include(text, current) ==
  LET extension_set == get_extension_set(text)
  IN IF extension_set # {} THEN extension_set ELSE current

\* populate_list, lines 323-338: the items of the list
list_items(fs, ignore_text, include_extensions) ==
  LET subdirs == get_subdirectories(fs, CurDir, get_ignore_set(ignore_text))
      files == get_root_files(fs, CurDir, include_extensions)
  IN IF subdirs = <<>> /\ files = <<>> THEN <<NO_ITEMS>>
     ELSE [i \in 1..Len(subdirs) |-> DIR_PREFIX \o subdirs[i]]
          \o [i \in 1..Len(files) |-> FILE_PREFIX \o files[i]]

\* the user types into the ignore entry
EditIgnore ==
  /\ edits < MaxEdits
  /\ \E text \in IgnoreTexts \ {ignore_dirs_var} : ignore_dirs_var' = text
  /\ edits' = edits + 1
  /\ UNCHANGED <<extensions_var, INCLUDE_EXTENSIONS, item_listbox, selection>>
  /\ UNCHANGED <<run_vars, cls_vars, rd_vars, app_vars>>

\* the user types into the extension entry
EditExtensions ==
  /\ edits < MaxEdits
  /\ \E text \in ExtensionTexts \ {extensions_var} : extensions_var' = text
  /\ edits' = edits + 1
  /\ UNCHANGED <<ignore_dirs_var, INCLUDE_EXTENSIONS, item_listbox, selection>>
  /\ UNCHANGED <<run_vars, cls_vars, rd_vars, app_vars>>

\* "Refresh List": populate_list
populate_list ==
  /\ INCLUDE_EXTENSIONS' = updated_include(extensions_var, INCLUDE_EXTENSIONS)
  /\ item_listbox' = list_items(Fs, ignore_dirs_var, INCLUDE_EXTENSIONS')
  /\ selection' = {}
  /\ UNCHANGED <<ignore_dirs_var, extensions_var, edits>>
  /\ UNCHANGED <<run_vars, cls_vars, rd_vars, app_vars>>

\* the user selects items of the list (the list is disabled when it shows
\* " No items found."); a run reads the selection only as it starts
Select ==
  /\ pc \in {"idle", "done"}
  /\ item_listbox # <<NO_ITEMS>>
  /\ \E S \in SUBSET (1..Len(item_listbox)) :
       /\ Cardinality(S) <= MaxSelected
       /\ S # selection
       /\ selection' = S
  /\ UNCHANGED <<ignore_dirs_var, extensions_var, INCLUDE_EXTENSIONS, item_listbox,
                 edits>>
  /\ UNCHANGED <<run_vars, cls_vars, rd_vars, app_vars>>

(***************************************************************************)
(* The worker thread: run_combination.                                     *)
(***************************************************************************)

\* None, which is no string: a value apart from every sequence of characters
None == <<"None">>
OutPath == <<"o", "u", "t", ".", "t", "x", "t">>

\* the indices of S in increasing order (curselection())
RECURSIVE ascending(_)
ascending(S) ==
  IF S = {} THEN <<>>
  ELSE LET m == CHOOSE x \in S : \A y \in S : x <= y
       IN <<m>> \o ascending(S \ {m})

\* the state of a run whose thread has not yet read anything
fresh_run ==
  /\ selected_items' = <<>>
  /\ ignore_set' = {}
  /\ output_filepath' = None
  /\ item_index' = 1
  /\ walk_stack' = <<>>
  /\ walk_files' = <<>>
  /\ outfile' = <<>>
  /\ total_files_processed' = 0
  /\ total_errors' = 0
  /\ error_log' = <<>>
  /\ outcome' = "none"
  /\ run_include' = {}
  /\ decisions' = {}
  /\ visited' = {}
  /\ processed_paths' = <<>>
  /\ raised' = 0
  /\ sink_failed' = FALSE
  /\ remove_failed' = FALSE
  /\ faults' = 0

\* run_combination_threaded: the click on "Combine Selected Items...".  This
\* specification follows one run at a time; runs started while another is in
\* progress are in SpecThreads below
run_combination_threaded ==
  /\ pc \in {"idle", "done"}
  /\ pc' = "start"
  /\ fresh_run
  /\ UNCHANGED file_exists
  /\ UNCHANGED <<gui_vars, cls_vars, rd_vars, app_vars>>

\* lines 361-368: the selection and the ignore set are read
ReadSelection ==
  /\ pc = "start"
  /\ IF selection = {}
     THEN /\ outcome' = "no_selection"
          /\ pc' = "done"
          /\ UNCHANGED <<selected_items, ignore_set, run_include>>
     ELSE /\ selected_items' =
               [i \in 1..Cardinality(selection) |->
                  item_listbox[ascending(selection)[i]]]
          /\ ignore_set' = get_ignore_set(ignore_dirs_var)
          /\ run_include' = INCLUDE_EXTENSIONS
          /\ pc' = "poll"
          /\ UNCHANGED outcome
  /\ UNCHANGED <<output_filepath, item_index, walk_stack, walk_files, outfile,
                 total_files_processed, total_errors, error_log, file_exists,
                 decisions, visited, processed_paths, raised, sink_failed,
                 remove_failed, faults>>
  /\ UNCHANGED <<gui_vars, cls_vars, rd_vars, app_vars>>

\* lines 370-390: the save dialog returns a path, or '' when it is cancelled
SaveDialog ==
  /\ pc = "poll"
  /\ \E answer \in {<<>>, OutPath} :
       /\ output_filepath' = answer
       /\ IF answer = <<>>
          THEN outcome' = "cancelled" /\ pc' = "done"
          ELSE outcome' = outcome /\ pc' = "open"
  /\ UNCHANGED <<selected_items, ignore_set, item_index, walk_stack, walk_files,
                 outfile, total_files_processed, total_errors, error_log,
                 file_exists, run_include, decisions, visited, processed_paths,
                 raised, sink_failed, remove_failed, faults>>
  /\ UNCHANGED <<gui_vars, cls_vars, rd_vars, app_vars>>

\* the exception reaches the outer handler (lines 480-484), then finally
Fatal ==
  /\ outcome' = "error"
  /\ pc' = "done"

\* line 398: open(output_filepath, 'w') creates or truncates the file
OpenOutput ==
  /\ pc = "open"
  /\ \/ /\ file_exists' = TRUE
        /\ pc' = "header"
        /\ UNCHANGED <<outcome, sink_failed, faults>>
     \/ /\ faults < MaxFaults
        /\ faults' = faults + 1
        /\ sink_failed' = TRUE
        /\ Fatal
        /\ UNCHANGED file_exists
  /\ UNCHANGED <<selected_items, ignore_set, output_filepath, item_index,
                 walk_stack, walk_files, outfile, total_files_processed,
                 total_errors, error_log, run_include, decisions, visited,
                 processed_paths, raised, remove_failed>>
  /\ UNCHANGED <<gui_vars, cls_vars, rd_vars, app_vars>>

\* lines 399-403: the header
WriteHeader ==
  /\ pc = "header"
  /\ \/ /\ outfile' = <<[kind |-> "header", path |-> basename(output_filepath)]>>
        /\ pc' = "item"
        /\ UNCHANGED <<outcome, sink_failed, faults>>
     \/ /\ faults < MaxFaults
        /\ faults' = faults + 1
        /\ sink_failed' = TRUE
        /\ Fatal
        /\ UNCHANGED outfile
  /\ UNCHANGED <<selected_items, ignore_set, output_filepath, item_index,
                 walk_stack, walk_files, total_files_processed, total_errors,
                 error_log, file_exists, run_include, decisions, visited,
                 processed_paths, raised, remove_failed>>
  /\ UNCHANGED <<gui_vars, cls_vars, rd_vars, app_vars>>

\* a plausible slip: only hidden directories are pruned, the ignore set is
\* not consulted
prune_hidden_only(dirs, ignored) ==
  SelectSeq(dirs, LAMBDA d : ~startswith(d, "."))

\* line 412: dirs[:] = [d for d in dirs if d not in ignore_set and not
\* d.startswith('.')]
prune(dirs, ignored) ==
  SelectSeq(dirs, LAMBDA d : d \notin ignored /\ ~startswith(d, "."))

\* a plausible slip: the ignore set applied to the selected directory as well
walk_start_pruned(dirname, ignored) ==
  IF dirname \in ignored THEN <<>> ELSE <<dirname>>

\* line 410: os.walk(dirname) starts at the selected directory, whatever its name
walk_start(dirname, ignored) == <<dirname>>

\* os.walk: the sub-directories and the other entries of a directory
walk_dirs(fs, root) ==
  SelectSeq(listdir(fs, root), LAMBDA n : isdir(fs, path_join(root, n)))
walk_nondirs(fs, root) ==
  SelectSeq(listdir(fs, root), LAMBDA n : ~isdir(fs, path_join(root, n)))

\* item[7:] and item[8:]
dir_of(item) == SubSeq(item, Len(DIR_PREFIX) + 1, Len(item))
file_of(item) == SubSeq(item, Len(FILE_PREFIX) + 1, Len(item))

\* lines 405-406, 436: the next selected item
NextItem ==
  /\ pc = "item"
  /\ IF item_index > Len(selected_items)
     THEN /\ pc' = "close"
          /\ UNCHANGED <<item_index, walk_stack>>
     ELSE LET item == selected_items[item_index]
          IN IF has_prefix(item, DIR_PREFIX)
             THEN /\ walk_stack' = walk_start(dir_of(item), ignore_set)
                  /\ pc' = "walk"
                  /\ UNCHANGED item_index
             ELSE IF has_prefix(item, FILE_PREFIX)
             THEN /\ pc' = "fileitem"
                  /\ UNCHANGED <<item_index, walk_stack>>
             ELSE /\ item_index' = item_index + 1
                  /\ pc' = "item"
                  /\ UNCHANGED walk_stack
  /\ UNCHANGED <<selected_items, ignore_set, output_filepath, walk_files,
                 outfile, total_files_processed, total_errors, error_log,
                 outcome, file_exists, run_include, decisions, visited,
                 processed_paths, raised, sink_failed, remove_failed, faults>>
  /\ UNCHANGED <<gui_vars, cls_vars, rd_vars, app_vars>>

\* lines 410-412: os.walk yields the next directory, top-down, and the loop
\* body prunes its sub-directories before the walk descends
WalkNext ==
  /\ pc = "walk"
  /\ IF walk_stack = <<>>
     THEN /\ item_index' = item_index + 1
          /\ pc' = "item"
          /\ UNCHANGED <<walk_stack, walk_files, visited>>
     ELSE LET root == Head(walk_stack)
          IN IF ~isdir(Fs, root)
             THEN /\ walk_stack' = Tail(walk_stack)
                  /\ UNCHANGED <<pc, item_index, walk_files, visited>>
             ELSE LET dirs == prune(walk_dirs(Fs, root), ignore_set)
                      files == walk_nondirs(Fs, root)
                  IN /\ walk_stack' =
                          [i \in 1..Len(dirs) |-> path_join(root, dirs[i])]
                          \o Tail(walk_stack)
                     /\ walk_files' =
                          [i \in 1..Len(files) |-> path_join(root, files[i])]
                     /\ visited' = visited \cup {root}
                     /\ pc' = "file"
                     /\ UNCHANGED item_index
  /\ UNCHANGED <<selected_items, ignore_set, output_filepath, outfile,
                 total_files_processed, total_errors, error_log, outcome,
                 file_exists, run_include, decisions, processed_paths, raised,
                 sink_failed, remove_failed, faults>>
  /\ UNCHANGED <<gui_vars, cls_vars, rd_vars, app_vars>>

(***************************************************************************)
(* The per-file try block (lines 420-434 and 440-451).                     *)
(***************************************************************************)

\* whether the UTF-8 output file can encode the text of a path
encodable(file_path) == BadChar \notin Range(file_path)

\* the statements of the try block at which the environment may fail
Faults == {"relpath", "separator", "content", "blank"}

\* the statement at which the try block raises, "none" when it completes:
\* writing the separator of an unencodable path raises UnicodeEncodeError
raises_at(file_path, fault) ==
  IF fault = "relpath" THEN "relpath"
  ELSE IF ~encodable(file_path) THEN "separator"
  ELSE fault

\* what the try block wrote before it raised
written_before(file_path, stop) ==
  LET sep == [kind |-> "separator", path |-> file_path]
      content == [kind |-> "content", path |-> file_path]
      blank == [kind |-> "blank", path |-> file_path]
  IN CASE stop \in {"relpath", "separator"} -> <<>>
       [] stop = "content" -> <<sep>>
       [] stop = "blank" -> <<sep, content>>
       [] OTHER -> <<sep, content, blank>>

\* a plausible slip: the file is counted before its content is written
try_block_count_first(file_path, fault, marker_fails, st) ==
  LET stop == raises_at(file_path, fault)
      counted == [st EXCEPT !.total_files_processed = @ + 1,
                            !.processed_paths = Append(@, file_path)]
      marker_ok == encodable(file_path) /\ ~marker_fails
  IN IF stop = "none"
     THEN [counted EXCEPT !.outfile = @ \o written_before(file_path, stop)]
     ELSE [(IF stop = "relpath" THEN st ELSE counted) EXCEPT
             !.outfile = @ \o written_before(file_path, stop)
                           \o (IF marker_ok
                               THEN <<[kind |-> "marker", path |-> file_path]>>
                               ELSE <<>>),
             !.error_log = Append(@, file_path),
             !.total_errors = @ + 1,
             !.raised = TRUE,
             !.escaped = ~marker_ok]

\* the try block and its handler, on the counters and the output of the run:
\* st is [outfile, total_files_processed, total_errors, error_log,
\* processed_paths, raised, escaped]; raised tells that the block raised,
\* escaped that the handler's own write raised too
try_block(file_path, fault, marker_fails, st) ==
  LET stop == raises_at(file_path, fault)
      marker_ok == encodable(file_path) /\ ~marker_fails
  IN IF stop = "none"
     THEN [st EXCEPT !.outfile = @ \o written_before(file_path, stop),
                     !.total_files_processed = @ + 1,
                     !.processed_paths = Append(@, file_path)]
     ELSE [st EXCEPT
             !.outfile = @ \o written_before(file_path, stop)
                           \o (IF marker_ok
                               THEN <<[kind |-> "marker", path |-> file_path]>>
                               ELSE <<>>),
             !.error_log = Append(@, file_path),
             !.total_errors = @ + 1,
             !.raised = TRUE,
             !.escaped = ~marker_ok]

\* the try block run on the state of the worker, the environment choosing
\* where it fails; a failed write of the output is a failure of the sink
RunTryBlock(file_path, continue_at) ==
  \E fault \in Faults \cup {"none"}, marker_fails \in BOOLEAN :
    LET st == [outfile |-> outfile,
               total_files_processed |-> total_files_processed,
               total_errors |-> total_errors,
               error_log |-> error_log,
               processed_paths |-> processed_paths,
               raised |-> FALSE,
               escaped |-> FALSE]
        r == try_block(file_path, fault, marker_fails, st)
        cost == (IF fault = "none" THEN 0 ELSE 1) + (IF marker_fails THEN 1 ELSE 0)
    IN /\ faults + cost <= MaxFaults
       /\ fault \in {"separator", "content", "blank"} => encodable(file_path)
       /\ marker_fails => (fault # "none" /\ encodable(file_path))
       /\ faults' = faults + cost
       /\ sink_failed' =
            (sink_failed \/ fault \in {"separator", "content", "blank"}
                         \/ marker_fails)
       /\ outfile' = r.outfile
       /\ total_files_processed' = r.total_files_processed
       /\ total_errors' = r.total_errors
       /\ error_log' = r.error_log
       /\ processed_paths' = r.processed_paths
       /\ raised' = raised + (IF r.raised THEN 1 ELSE 0)
       /\ IF r.escaped THEN Fatal ELSE outcome' = outcome /\ pc' = continue_at

\* lines 414-418: the next file of the yielded directory is classified, under
\* the INCLUDE_EXTENSIONS of this moment
VisitFile ==
  /\ pc = "file"
  /\ IF walk_files = <<>>
     THEN /\ pc' = "walk"
          /\ UNCHANGED <<walk_files, decisions>>
     ELSE LET file_path == Head(walk_files)
              included == should_include_file(Fs, file_path, INCLUDE_EXTENSIONS)
          IN /\ decisions' =
                  decisions \cup {[path |-> file_path, included |-> included]}
             /\ IF included
                THEN pc' = "process" /\ UNCHANGED walk_files
                ELSE pc' = "file" /\ walk_files' = Tail(walk_files)
  /\ UNCHANGED <<selected_items, ignore_set, output_filepath, item_index,
                 walk_stack, outfile, total_files_processed, total_errors,
                 error_log, outcome, file_exists, run_include, visited,
                 processed_paths, raised, sink_failed, remove_failed, faults>>
  /\ UNCHANGED <<gui_vars, cls_vars, rd_vars, app_vars>>

\* lines 420-434: the try block of a file of a selected directory
ProcessFile ==
  /\ pc = "process"
  /\ RunTryBlock(Head(walk_files), "file")
  /\ walk_files' = Tail(walk_files)
  /\ UNCHANGED <<selected_items, ignore_set, output_filepath, item_index,
                 walk_stack, file_exists, run_include, decisions, visited,
                 remove_failed>>
  /\ UNCHANGED <<gui_vars, cls_vars, rd_vars, app_vars>>

\* line 441: a selected file is classified, under the INCLUDE_EXTENSIONS of
\* this moment
FileItem ==
  /\ pc = "fileitem"
  /\ LET filename == file_of(selected_items[item_index])
         included == should_include_file(Fs, filename, INCLUDE_EXTENSIONS)
     IN /\ decisions' =
             decisions \cup {[path |-> filename, included |-> included]}
        /\ IF included
           THEN pc' = "fileprocess" /\ UNCHANGED item_index
           ELSE pc' = "item" /\ item_index' = item_index + 1
  /\ UNCHANGED <<selected_items, ignore_set, output_filepath, walk_stack,
                 walk_files, outfile, total_files_processed, total_errors,
                 error_log, outcome, file_exists, run_include, visited,
                 processed_paths, raised, sink_failed, remove_failed, faults>>
  /\ UNCHANGED <<gui_vars, cls_vars, rd_vars, app_vars>>

\* lines 440-451: the try block of a selected file
ProcessFileItem ==
  /\ pc = "fileprocess"
  /\ RunTryBlock(file_of(selected_items[item_index]), "item")
  /\ item_index' = item_index + 1
  /\ UNCHANGED <<selected_items, ignore_set, output_filepath, walk_stack,
                 walk_files, file_exists, run_include, decisions, visited,
                 remove_failed>>
  /\ UNCHANGED <<gui_vars, cls_vars, rd_vars, app_vars>>

\* the end of the with block: the output file is flushed and closed
CloseOutput ==
  /\ pc = "close"
  /\ \/ /\ pc' = "report"
        /\ UNCHANGED <<outcome, sink_failed, faults>>
     \/ /\ faults < MaxFaults
        /\ faults' = faults + 1
        /\ sink_failed' = TRUE
        /\ Fatal
  /\ UNCHANGED <<selected_items, ignore_set, output_filepath, item_index,
                 walk_stack, walk_files, outfile, total_files_processed,
                 total_errors, error_log, file_exists, run_include, decisions,
                 visited, processed_paths, raised, remove_failed>>
  /\ UNCHANGED <<gui_vars, cls_vars, rd_vars, app_vars>>

\* a plausible slip: the test of line 454 reads >= 0
show_results_always_success(processed) == "success"

\* lines 454-478: the dialog the run ends with
show_results(processed) ==
  IF processed > 0 THEN "success" ELSE "no_files"

\* lines 454-478, then finally; os.remove may fail, which is only printed
Report ==
  /\ pc = "report"
  /\ outcome' = show_results(total_files_processed)
  /\ pc' = "done"
  /\ IF outcome' = "no_files"
     THEN \/ /\ file_exists' = FALSE
             /\ UNCHANGED <<remove_failed, faults>>
          \/ /\ faults < MaxFaults
             /\ faults' = faults + 1
             /\ remove_failed' = TRUE
             /\ UNCHANGED file_exists
     ELSE UNCHANGED <<file_exists, remove_failed, faults>>
  /\ UNCHANGED <<selected_items, ignore_set, output_filepath, item_index,
                 walk_stack, walk_files, outfile, total_files_processed,
                 total_errors, error_log, run_include, decisions, visited,
                 processed_paths, raised, sink_failed>>
  /\ UNCHANGED <<gui_vars, cls_vars, rd_vars, app_vars>>

(***************************************************************************)
(* The program: the window as __init__ leaves it, then the two threads.    *)
(***************************************************************************)

WindowInit ==
  /\ ignore_dirs_var = default_ignores
  /\ extensions_var = default_extensions
  /\ INCLUDE_EXTENSIONS =
       updated_include(default_extensions, Range(DefaultIncludeExtensions))
  /\ item_listbox = list_items(Fs, default_ignores, INCLUDE_EXTENSIONS)
  /\ selection = {}
  /\ edits = 0
  /\ pc = "idle"
  /\ selected_items = <<>>
  /\ ignore_set = {}
  /\ output_filepath = None
  /\ item_index = 1
  /\ walk_stack = <<>>
  /\ walk_files = <<>>
  /\ outfile = <<>>
  /\ total_files_processed = 0
  /\ total_errors = 0
  /\ error_log = <<>>
  /\ outcome = "none"
  /\ file_exists = FALSE
  /\ run_include = {}
  /\ decisions = {}
  /\ visited = {}
  /\ processed_paths = <<>>
  /\ raised = 0
  /\ sink_failed = FALSE
  /\ remove_failed = FALSE
  /\ faults = 0

\* the classifier and the content reader, not being looked at on their own
ClassifierIdle ==
  /\ cls_fs = <<>>
  /\ cls_path = <<>>
  /\ cls_include = {}
  /\ cls_result = [done |-> FALSE, included |-> FALSE]

ReaderIdle ==
  /\ rd_bytes = <<>>
  /\ rd_open = <<>>
  /\ rd_result = [done |-> FALSE, content |-> <<>>, encoding |-> ""]

\* the window's threads, not being looked at on their own: the button and the
\* progress bar as create_widgets leaves them, no worker thread
ThreadsIdle ==
  /\ combine_button = "normal"
  /\ progress = "stopped"
  /\ after_queue = <<>>
  /\ dialogs = <<>>
  /\ threads = <<>>

Init == WindowInit /\ ClassifierIdle /\ ReaderIdle /\ ThreadsIdle

Next ==
  \/ EditIgnore
  \/ EditExtensions
  \/ populate_list
  \/ Select
  \/ run_combination_threaded
  \/ ReadSelection
  \/ SaveDialog
  \/ OpenOutput
  \/ WriteHeader
  \/ NextItem
  \/ WalkNext
  \/ VisitFile
  \/ ProcessFile
  \/ FileItem
  \/ ProcessFileItem
  \/ CloseOutput
  \/ Report

Spec == Init /\ [][Next]_vars

(***************************************************************************)
(* Properties of a run.                                                    *)
(***************************************************************************)

\* the directory names on the way from a selected directory down to p, the
\* selected directory itself left out; for a file, its own name left out too
below_top(p, is_file) ==
  LET parts == split(p, "/")
      last == IF is_file THEN Len(parts) - 1 ELSE Len(parts)
  IN {parts[i] : i \in 2..last}

not_pruned(p, is_file) ==
  \A d \in below_top(p, is_file) : d \notin ignore_set /\ ~startswith(d, ".")

\* the paths the run classified, and those it wrote anything for
decided_paths == {d.path : d \in decisions}
written_paths ==
  {outfile[i].path : i \in {j \in 1..Len(outfile) : outfile[j].kind # "header"}}

\* the selected items the loop is done with
done_items == 1..(item_index - 1)

\* the run went through the whole selection
iterated == selected_items # <<>> /\ item_index > Len(selected_items)

\* C1: every include/exclude decision of a run is the one should_include_file
\* gives under the include-extension set in force when the run started (the
\* ignore set is a local of the run, read once as it starts)
C1_DecisionsUseSnapshot ==
  \A d \in decisions :
    d.included = should_include_file(Fs, d.path, run_include)

\* C2: the walk of a selected directory never yields, visits or writes a path
\* that lies, below the selected directory, under a directory whose name is
\* in the ignore set of the run or starts with '.'
C2_IgnoredSubtreesNeverVisited ==
  /\ \A p \in visited \cup Range(walk_stack) : not_pruned(p, FALSE)
  /\ \A p \in decided_paths \cup Range(walk_files) \cup written_paths
                \cup Range(processed_paths) \cup Range(error_log) :
       not_pruned(p, TRUE)

\* C2 happens: the walk of src is over, src holds the ignored node_modules
\* with the nested directory pkg, and a file of src was processed
C2_Witness ==
  /\ pc = "done"
  /\ outcome = "success"
  /\ n_src \in visited
  /\ n_node_modules \in ignore_set
  /\ path_join(n_src, f_b) \in Range(processed_paths)

\* C3: "Refresh List" puts the include set typed into the extension entry in
\* force: the empty set (include all) for an empty entry, the typed
\* extensions otherwise
C3_RefreshAppliesEntry ==
  [][populate_list => INCLUDE_EXTENSIONS' = get_extension_set(extensions_var)]_vars

\* C5: the error counter always equals the length of the error log, and a try
\* block that raises logs the path, counts one error, leaves the processed
\* counter alone, writes the inline marker, and the run goes on with the next
\* file or item
C5_FileFailureNeverAborts ==
  /\ [](total_errors = Len(error_log))
  /\ [][raised' = raised + 1 =>
          /\ total_errors' = total_errors + 1
          /\ Len(error_log') = Len(error_log) + 1
          /\ total_files_processed' = total_files_processed
          /\ outfile' # <<>>
          /\ outfile'[Len(outfile')].kind = "marker"
          /\ pc' \in {"file", "item"}]_vars

\* C6: once an open, a write or the close of the output file has failed, the
\* run ends in the error outcome, never in success or 'no files found'
C6_SinkFailureIsFatal ==
  sink_failed => outcome \in {"none", "error"}

\* C7: no path is counted twice, be it as processed, as an error, or once as
\* each; the counters count exactly these paths
C7_CountedOnce ==
  LET counted == processed_paths \o error_log
  IN /\ \A i, j \in 1..Len(counted) : counted[i] = counted[j] => i = j
     /\ total_files_processed = Len(processed_paths)
     /\ total_errors = Len(error_log)

\* C7 happens: a finished run that counted a processed file and an error
C7_Witness ==
  /\ pc = "done"
  /\ total_files_processed >= 1
  /\ total_errors >= 1

\* the directories of the tree under root that no pruned name cuts off
RECURSIVE reach(_, _)
reach(root, ignored) ==
  {root} \cup
  UNION { reach(path_join(root, n), ignored) :
            n \in { x \in Range(listdir(Fs, root)) :
                      /\ isdir(Fs, path_join(root, x))
                      /\ x \notin ignored
                      /\ ~startswith(x, ".") } }

\* the files of a directory
files_in(root) ==
  { path_join(root, n) : n \in Range(walk_nondirs(Fs, root)) }

\* the selected directories whose name is in the ignore set of the run and
\* which the loop is done with
ignored_done_dirs ==
  { dir_of(selected_items[i]) :
      i \in { j \in done_items :
                /\ has_prefix(selected_items[j], DIR_PREFIX)
                /\ dir_of(selected_items[j]) \in ignore_set } }

\* C9: a selected directory whose own name is in the ignore set of the run is
\* walked all the same: once the loop is done with it, it and every directory
\* under it that no pruned name cuts off were visited, each of their files
\* was classified, and each file found includable was counted as processed
\* or as an error
C9_SelectedIgnoredDirWalked ==
  \A top \in ignored_done_dirs :
    \A d \in reach(top, ignore_set) :
      /\ d \in visited
      /\ \A f \in files_in(d) :
           /\ f \in decided_paths
           /\ [path |-> f, included |-> TRUE] \in decisions
                => f \in Range(processed_paths) \cup Range(error_log)

\* C9 happens: lib was selected, its name is in the ignore set the run read,
\* and the finished run processed lib/e.py
C9_Witness ==
  /\ pc = "done"
  /\ outcome = "success"
  /\ n_lib \in ignored_done_dirs
  /\ path_join(n_lib, f_e) \in Range(processed_paths)

\* C10 as stated: a run that went through its selection with nothing
\* processed ends in 'no files found' and its output file is gone
C10_ZeroMeansNoFilesAndFileGone ==
  (pc = "done" /\ iterated /\ total_files_processed = 0)
    => (outcome = "no_files" /\ ~file_exists)

\* C10, amended: a run that went through its selection with nothing processed
\* ends in 'no files found' once the output file is closed, and then the
\* output file is gone unless os.remove failed; it ends in the error outcome
\* only when closing the output file failed
C10_ZeroMeansNoFiles ==
  (pc = "done" /\ iterated /\ total_files_processed = 0)
    => \/ outcome = "no_files" /\ (file_exists <=> remove_failed)
       \/ outcome = "error" /\ sink_failed /\ file_exists

\* C10 happens: a finished run over a selection with nothing to include, its
\* output file removed
C10_Witness ==
  /\ pc = "done"
  /\ iterated
  /\ decisions # {}
  /\ total_files_processed = 0
  /\ outcome = "no_files"
  /\ ~file_exists

(***************************************************************************)
(* The classifier on its own: should_include_file applied to one path of   *)
(* a file system holding at most that path, under any include set.         *)
(***************************************************************************)

\* paths with and without an extension, in either case, with a dot in the
\* directory name only, and with nothing but a leading dot
ClassifierPaths ==
  { f_a,
    <<"A", ".", "P", "Y">>,
    f_i,
    <<"p">> \o ext_png,
    <<"n">> \o ext_txt,
    <<"m">>,
    <<".", "e", "n", "v">>,
    <<"d", ".", "d", "/", "x">> }

\* what may be at the path: a directory, or a file whose first null byte is
\* nowhere, at the start, at the end of the sniffed chunk or just after it
ClassifierEntries ==
  {Dir(<<>>)}
  \cup { File(n, r) : n \in {0, 1, ChunkSize, ChunkSize + 1}, r \in BOOLEAN }

ClassifierIncludeSets == SUBSET {ext_py, ext_svg, ext_txt}

InitClassify ==
  /\ WindowInit
  /\ ReaderIdle
  /\ ThreadsIdle
  /\ cls_path \in ClassifierPaths
  /\ \/ cls_fs = <<>>
     \/ \E e \in ClassifierEntries : cls_fs = (cls_path :> e)
  /\ cls_include \in ClassifierIncludeSets
  /\ cls_result = [done |-> FALSE, included |-> FALSE]

\* should_include_file(cls_path) is called
Classify ==
  /\ ~cls_result.done
  /\ cls_result' =
       [done |-> TRUE,
        included |-> should_include_file(cls_fs, cls_path, cls_include)]
  /\ UNCHANGED <<cls_fs, cls_path, cls_include>>
  /\ UNCHANGED <<gui_vars, run_vars, rd_vars, app_vars>>

NextClassify == Classify

SpecClassify == InitClassify /\ [][NextClassify]_vars

\* the lower-cased extension of the path asked about
cls_ext == lower(splitext(cls_path))

\* the file asked about is binary: by its extension, by a null byte among its
\* first 1024 bytes, or because it cannot be read
cls_binary ==
  \/ cls_ext \in BINARY_EXTENSIONS
  \/ ~cls_fs[cls_path].readable
  \/ \E k \in 1..ChunkSize : cls_fs[cls_path].firstNul = k

MaxBytes == 3

\* 'A'; the UTF-8 lead bytes C3 (two bytes) and EF (three bytes); the
\* continuation bytes 81, A9, BB, BF; and FF, which no UTF-8 text holds.
\* C3 A9 is U+00E9, EF BB BF the signature U+FEFF; 81 is undefined in cp1252.
ByteValues == {65, 195, 239, 129, 169, 187, 191, 255}

\* U+FFFD, what errors='replace' puts for undecodable bytes
REPLACEMENT == 65533
\* U+FEFF, the signature 'utf-8-sig' drops
SIGNATURE == 65279

is_continuation(b) == b >= 128 /\ b <= 191

\* bytes.decode('utf-8', errors): [ok, text]; with replace, every maximal
\* undecodable run of bytes becomes one U+FFFD.  Lead bytes E0, ED and F0..F4,
\* which restrict their continuation bytes, are not among ByteValues.
RECURSIVE utf8_decode(_, _)
utf8_decode(bytes, replace) ==
  IF bytes = <<>> THEN [ok |-> TRUE, text |-> <<>>]
  ELSE
    LET b == Head(bytes)
        n == Len(bytes)
        \* the code point decoded at the head, -1 when there is none, and the
        \* number of bytes it, or the undecodable run, takes
        step ==
          IF b < 128 THEN [cp |-> b, used |-> 1]
          ELSE IF b >= 194 /\ b <= 223
          THEN IF n >= 2 /\ is_continuation(bytes[2])
               THEN [cp |-> (b - 192) * 64 + (bytes[2] - 128), used |-> 2]
               ELSE [cp |-> -1, used |-> 1]
          ELSE IF b >= 225 /\ b <= 239 /\ b # 237
          THEN IF n >= 3 /\ is_continuation(bytes[2]) /\ is_continuation(bytes[3])
               THEN [cp |-> (b - 224) * 4096 + (bytes[2] - 128) * 64
                            + (bytes[3] - 128),
                     used |-> 3]
               ELSE IF n >= 2 /\ is_continuation(bytes[2])
               THEN [cp |-> -1, used |-> 2]
               ELSE [cp |-> -1, used |-> 1]
          ELSE [cp |-> -1, used |-> 1]
        rest == utf8_decode(SubSeq(bytes, step.used + 1, n), replace)
    IN IF step.cp >= 0
       THEN [ok |-> rest.ok, text |-> <<step.cp>> \o rest.text]
       ELSE IF replace
       THEN [ok |-> rest.ok, text |-> <<REPLACEMENT>> \o rest.text]
       ELSE [ok |-> FALSE, text |-> <<>>]

\* 'utf-8-sig': UTF-8 with a leading signature dropped
utf8_sig_decode(bytes) ==
  LET d == utf8_decode(bytes, FALSE)
  IN IF d.ok /\ d.text # <<>> /\ Head(d.text) = SIGNATURE
     THEN [ok |-> TRUE, text |-> Tail(d.text)]
     ELSE d

\* 'latin-1' and 'iso-8859-1': every byte is the code point of its value
latin1_decode(bytes) == [ok |-> TRUE, text |-> bytes]

\* 'cp1252': as latin-1 outside 80..9F; of 80..9F only 81 is among ByteValues,
\* and it is one of the bytes cp1252 does not define
cp1252_decode(bytes) ==
  IF 129 \in Range(bytes) THEN [ok |-> FALSE, text |-> <<>>]
  ELSE [ok |-> TRUE, text |-> bytes]

\* f.read() of a file opened with the encoding
decode(encoding, bytes) ==
  CASE encoding = "utf-8" -> utf8_decode(bytes, FALSE)
    [] encoding = "utf-8-sig" -> utf8_sig_decode(bytes)
    [] encoding = "latin-1" -> latin1_decode(bytes)
    [] encoding = "cp1252" -> cp1252_decode(bytes)
    [] encoding = "iso-8859-1" -> latin1_decode(bytes)

\* a plausible slip: latin-1, which decodes anything, listed first
encodings_latin_first == <<"latin-1", "utf-8", "utf-8-sig", "cp1252", "iso-8859-1">>

\* line 170
encodings == <<"utf-8", "utf-8-sig", "latin-1", "cp1252", "iso-8859-1">>

\* the returned string of line 190, "[ERROR: Could not read file ...", cut
\* to the code points of "[ERROR"
ERROR_TEXT == <<91, 69, 82, 82, 79, 82>>

\* lines 183-190: the file is read as bytes and decoded with errors='replace'
read_fallback(bytes, open_ok) ==
  IF open_ok[Len(encodings) + 1]
  THEN [done |-> TRUE, content |-> utf8_decode(bytes, TRUE).text,
        encoding |-> "utf-8 (with errors)"]
  ELSE [done |-> TRUE, content |-> ERROR_TEXT, encoding |-> "error"]

\* one pass of the loop body: what open() and f.read() do
attempt(bytes, open_ok, i) ==
  IF ~open_ok[i] THEN "OSError"
  ELSE IF decode(encodings[i], bytes).ok THEN "ok"
  ELSE "UnicodeDecodeError"

\* the exceptions the loop's handlers catch: except UnicodeDecodeError
\* (line 177) and except Exception (line 179)
caught_in_loop == {"UnicodeDecodeError", "OSError"}

\* lines 172-181, from the i-th encoding on: a caught exception goes on to
\* the next encoding, any other would leave read_file_safely
RECURSIVE read_from(_, _, _)
read_from(bytes, open_ok, i) ==
  IF i > Len(encodings) THEN read_fallback(bytes, open_ok)
  ELSE LET result == attempt(bytes, open_ok, i)
       IN IF result = "ok"
          THEN [done |-> TRUE, content |-> decode(encodings[i], bytes).text,
                encoding |-> encodings[i]]
          ELSE IF result \in caught_in_loop
          THEN read_from(bytes, open_ok, i + 1)
          ELSE [done |-> TRUE, content |-> <<>>, encoding |-> "raised"]

\* read_file_safely(file_path)
read_file_safely(bytes, open_ok) == read_from(bytes, open_ok, 1)

\* the byte strings of length up to n
RECURSIVE byte_strings(_)
byte_strings(n) ==
  IF n = 0 THEN {<<>>}
  ELSE LET shorter == byte_strings(n - 1)
       IN shorter \cup { Append(s, b) : s \in shorter, b \in ByteValues }

InitRead ==
  /\ WindowInit
  /\ ClassifierIdle
  /\ ThreadsIdle
  /\ rd_bytes \in byte_strings(MaxBytes)
  /\ rd_open \in [1..(Len(encodings) + 1) -> BOOLEAN]
  /\ rd_result = [done |-> FALSE, content |-> <<>>, encoding |-> ""]

\* read_file_safely is called
ReadFile ==
  /\ ~rd_result.done
  /\ rd_result' = read_file_safely(rd_bytes, rd_open)
  /\ UNCHANGED <<rd_bytes, rd_open>>
  /\ UNCHANGED <<gui_vars, run_vars, cls_vars, app_vars>>

NextRead == ReadFile

SpecRead == InitRead /\ [][NextRead]_vars

\* the encodings in the order the specification gives them
PriorityOrder == <<"utf-8", "utf-8-sig", "latin-1", "cp1252", "iso-8859-1">>

\* the i-th attempt of that order would open and decode the file
succeeds(i) == rd_open[i] /\ decode(PriorityOrder[i], rd_bytes).ok

\* the file holds bytes that are not valid UTF-8
invalid_utf8 == ~utf8_decode(rd_bytes, FALSE).ok

\* what C8 says of every call but the one on invalid UTF-8: a pair comes
\* back, never an exception; it is the text of the first encoding of the
\* order that opens and decodes; with no such encoding it is the replace
\* decoding, or, the file not opening at all, the error string tagged 'error'
read_contract ==
  /\ rd_result.encoding \in
       Range(PriorityOrder) \cup {"utf-8 (with errors)", "error"}
  /\ \A i \in 1..Len(PriorityOrder) :
       (succeeds(i) /\ \A j \in 1..(i - 1) : ~succeeds(j))
         => /\ rd_result.encoding = PriorityOrder[i]
            /\ rd_result.content = decode(PriorityOrder[i], rd_bytes).text
  /\ (\A i \in 1..Len(PriorityOrder) : ~succeeds(i))
       => IF rd_open[Len(PriorityOrder) + 1]
          THEN /\ rd_result.encoding = "utf-8 (with errors)"
               /\ rd_result.content = utf8_decode(rd_bytes, TRUE).text
          ELSE /\ rd_result.encoding = "error"
               /\ rd_result.content = ERROR_TEXT

\* every open() of the file works
opens == \A i \in DOMAIN rd_open : rd_open[i]

\* C8 as stated: the contract above, and the content returned for a file of
\* invalid UTF-8 that opens holds a replacement marker
C8_InvalidUtf8GetsMarker ==
  rd_result.done =>
    /\ read_contract
    /\ (invalid_utf8 /\ opens) => REPLACEMENT \in Range(rd_result.content)

\* C8, amended: the contract above; a file of invalid UTF-8 comes back, when
\* the Latin-1 attempt can open it, as its Latin-1 text, tagged 'latin-1',
\* with no replacement marker; a replacement marker comes back only from the
\* replace decoding, which is reached only when neither the Latin-1 nor the
\* ISO-8859-1 attempt could open the file
C8_ReadFileSafely ==
  rd_result.done =>
    /\ read_contract
    /\ (invalid_utf8 /\ rd_open[3])
         => /\ rd_result.encoding = "latin-1"
            /\ rd_result.content = rd_bytes
            /\ REPLACEMENT \notin Range(rd_result.content)
    /\ REPLACEMENT \in Range(rd_result.content)
         => /\ rd_result.encoding = "utf-8 (with errors)"
            /\ ~rd_open[3]
            /\ ~rd_open[5]

\* C8 happens: a file of the single byte FF, every open working, read
C8_Witness ==
  /\ rd_result.done
  /\ rd_bytes = <<255>>
  /\ opens
  /\ rd_result.encoding = "latin-1"

(***************************************************************************)
(* The threads of the window.  The main thread runs the Tk event loop: it  *)
(* handles the clicks and runs the callbacks that the worker threads hand  *)
(* it with root.after(0, ...), oldest first.  Every click on "Combine      *)
(* Selected Items..." starts a worker thread that runs run_combination.    *)
(* The file-level detail of a run is in Spec above; here the writing of    *)
(* the output file is one step of its worker.                              *)
(***************************************************************************)

\* worker threads started in one behaviour
MaxRuns == 2

\* a callback handed to root.after(0, ...) by worker thread t
Callback(t, call) == [thread |-> t, call |-> call]

\* a worker thread as threading.Thread(target=self.run_combination) starts it
new_thread == [pc |-> "l358", output_filepath |-> None, reports |-> 0]

\* the worker threads whose run_combination has not yet returned
running == {t \in DOMAIN threads : threads[t].pc # "done"}

\* a slip: the button restored only at the end of the try block, so that a
\* return inside it leaves run_combination at once
after_return_no_finally == "done"

\* where a return inside the try block continues: the finally clause
after_return == "l488"

\* run_combination_threaded, as the Combine button invokes it: a disabled
\* button does nothing, and a modal dialog keeps the clicks from the window
CombineClicked ==
  /\ combine_button = "normal"
  /\ dialogs = <<>>
  /\ Len(threads) < MaxRuns
  /\ threads' = Append(threads, new_thread)
  /\ UNCHANGED <<combine_button, progress, after_queue, dialogs>>
  /\ UNCHANGED <<gui_vars, run_vars, cls_vars, rd_vars>>

\* "Select All": select_all
select_all ==
  /\ dialogs = <<>>
  /\ item_listbox # <<NO_ITEMS>>
  /\ selection' = 1..Len(item_listbox)
  /\ UNCHANGED <<ignore_dirs_var, extensions_var, INCLUDE_EXTENSIONS, item_listbox,
                 edits>>
  /\ UNCHANGED <<run_vars, cls_vars, rd_vars, app_vars>>

\* "Deselect All": deselect_all
deselect_all ==
  /\ dialogs = <<>>
  /\ selection' = {}
  /\ UNCHANGED <<ignore_dirs_var, extensions_var, INCLUDE_EXTENSIONS, item_listbox,
                 edits>>
  /\ UNCHANGED <<run_vars, cls_vars, rd_vars, app_vars>>

\* the callbacks that open a message box: the four reports of lines 364,
\* 466, 474 and 483
MessageBoxes ==
  {"showwarning: No Selection", "showinfo: Success",
   "showwarning: No Files Found", "showerror: Error"}

\* what running the oldest callback of the queue does
run_callback ==
  LET cb == Head(after_queue)
  IN /\ after_queue' = Tail(after_queue)
     /\ combine_button' =
          CASE cb.call = "config_disabled" -> "disabled"
            [] cb.call = "config_normal" -> "normal"
            [] OTHER -> combine_button
     /\ progress' =
          CASE cb.call = "progress_start" -> "running"
            [] cb.call = "progress_stop" -> "stopped"
            [] OTHER -> progress
     /\ dialogs' =
          CASE cb.call = "ask_save" ->
                 Append(dialogs, [kind |-> "save", thread |-> cb.thread])
            [] cb.call \in MessageBoxes -> Append(dialogs, [kind |-> "message"])
            [] OTHER -> dialogs

\* the event loop of the main thread (mainloop, or the loop a modal dialog
\* runs while it is open) runs the oldest callback
MainLoop ==
  /\ after_queue # <<>>
  /\ run_callback
  /\ UNCHANGED threads
  /\ UNCHANGED <<gui_vars, run_vars, cls_vars, rd_vars>>

\* filedialog.asksaveasfilename returns in ask_save: a path, or '' when the
\* user cancels; the innermost dialog is the one that can be answered
SaveDialogReturns ==
  /\ dialogs # <<>>
  /\ dialogs[Len(dialogs)].kind = "save"
  /\ \E answer \in {<<>>, OutPath} :
       threads' =
         [threads EXCEPT ![dialogs[Len(dialogs)].thread].output_filepath = answer]
  /\ dialogs' = SubSeq(dialogs, 1, Len(dialogs) - 1)
  /\ UNCHANGED <<combine_button, progress, after_queue>>
  /\ UNCHANGED <<gui_vars, run_vars, cls_vars, rd_vars>>

\* the user closes a message box
MessageBoxReturns ==
  /\ dialogs # <<>>
  /\ dialogs[Len(dialogs)].kind = "message"
  /\ dialogs' = SubSeq(dialogs, 1, Len(dialogs) - 1)
  /\ UNCHANGED <<combine_button, progress, after_queue, threads>>
  /\ UNCHANGED <<gui_vars, run_vars, cls_vars, rd_vars>>

\* worker t hands the callbacks to the main thread and moves on
post(t, calls, fields) ==
  /\ after_queue' =
       after_queue \o [i \in 1..Len(calls) |-> Callback(t, calls[i])]
  /\ threads' = [threads EXCEPT ![t] = fields @@ threads[t]]
  /\ UNCHANGED <<combine_button, progress, dialogs>>
  /\ UNCHANGED <<gui_vars, run_vars, cls_vars, rd_vars>>

\* line 358
post_disable(t) ==
  /\ threads[t].pc = "l358"
  /\ post(t, <<"config_disabled">>, [pc |-> "l359"])

\* line 359
post_progress_start(t) ==
  /\ threads[t].pc = "l359"
  /\ post(t, <<"progress_start">>, [pc |-> "l361"])

\* worker t reports how its run ended and goes on at pc
report(t, call, pc_after) ==
  post(t, <<call>>, [pc |-> pc_after, reports |-> threads[t].reports + 1])

\* lines 361-380: the selection is read; without one the run warns and
\* returns, with one it asks the main thread for the output path
read_selection(t) ==
  /\ threads[t].pc = "l361"
  /\ IF selection = {}
     THEN report(t, "showwarning: No Selection", after_return)
     ELSE post(t, <<"ask_save">>, [pc |-> "l384"])

\* lines 384-386, output_filepath still None: root.update() has the pending
\* callbacks run
poll_update(t) ==
  /\ threads[t].pc = "l384"
  /\ threads[t].output_filepath = None
  /\ after_queue # <<>>
  /\ run_callback
  /\ UNCHANGED threads
  /\ UNCHANGED <<gui_vars, run_vars, cls_vars, rd_vars>>

\* lines 384, 388-390: the loop ends once ask_save has stored the answer; an
\* empty answer ends the run
poll_exit(t) ==
  /\ threads[t].pc = "l384"
  /\ threads[t].output_filepath # None
  /\ IF threads[t].output_filepath = <<>>
     THEN report(t, "status: Save cancelled.", after_return)
     ELSE post(t, <<>>, [pc |-> "l398"])

\* lines 398-484: the output file is written and the result reported.  The
\* selection is not empty, its loops are over finite lists, and every path
\* through them ends in one of the reports of lines 454-478 (success, with
\* or without errors, or no files found) or, by an exception, in the report
\* of lines 480-484
process(t) ==
  /\ threads[t].pc = "l398"
  /\ \E call \in {"showinfo: Success", "showwarning: No Files Found",
                   "showerror: Error"} :
       report(t, call, "l488")

\* line 488
post_enable(t) ==
  /\ threads[t].pc = "l488"
  /\ post(t, <<"config_normal">>, [pc |-> "l489"])

\* line 489, and run_combination returns: its locals are gone
post_progress_stop(t) ==
  /\ threads[t].pc = "l489"
  /\ post(t, <<"progress_stop">>, [pc |-> "done", output_filepath |-> None])

\* one step of worker thread t
Worker(t) ==
  \/ post_disable(t)
  \/ post_progress_start(t)
  \/ read_selection(t)
  \/ poll_update(t)
  \/ poll_exit(t)
  \/ process(t)
  \/ post_enable(t)
  \/ post_progress_stop(t)

InitThreads == WindowInit /\ ClassifierIdle /\ ReaderIdle /\ ThreadsIdle

NextThreads ==
  \/ select_all
  \/ deselect_all
  \/ CombineClicked
  \/ MainLoop
  \/ SaveDialogReturns
  \/ MessageBoxReturns
  \/ \E t \in DOMAIN threads : post_disable(t)
  \/ \E t \in DOMAIN threads : post_progress_start(t)
  \/ \E t \in DOMAIN threads : read_selection(t)
  \/ \E t \in DOMAIN threads : poll_update(t)
  \/ \E t \in DOMAIN threads : poll_exit(t)
  \/ \E t \in DOMAIN threads : process(t)
  \/ \E t \in DOMAIN threads : post_enable(t)
  \/ \E t \in DOMAIN threads : post_progress_stop(t)

SpecThreads == InitThreads /\ [][NextThreads]_vars

\* the threads get to run, the event loop keeps running, and the user answers
\* the dialogs
SpecThreadsFair ==
  /\ SpecThreads
  /\ WF_vars(MainLoop)
  /\ WF_vars(SaveDialogReturns)
  /\ WF_vars(MessageBoxReturns)
  /\ \A t \in 1..MaxRuns : WF_vars(t \in DOMAIN threads /\ Worker(t))


(***************************************************************************)
(* Properties of the threads.                                              *)
(***************************************************************************)

\* run_combination has returned in worker t
ended(t) == t \in DOMAIN threads /\ threads[t].pc = "done"

\* every callback worker t handed to the main thread has run
drained(t) == \A i \in DOMAIN after_queue : after_queue[i].thread # t

\* nothing is going on: every run has ended and every callback has run
quiescent == running = {} /\ after_queue = <<>>

\* C11: every started run ends, having reported exactly once how it ended, and
\* its callbacks, the last two of which re-enable the Combine button and stop
\* the progress bar, get run (so the loop polling for the save dialog's answer
\* is left); no run reports twice; and whenever no run is left the Combine
\* button is enabled and the progress bar is stopped
C11_EveryRunEnds ==
  /\ \A t \in 1..MaxRuns :
       (t \in DOMAIN threads)
         ~> (ended(t) /\ threads[t].reports = 1 /\ drained(t))
  /\ [](\A t \in DOMAIN threads : threads[t].reports <= 1)
  /\ [](quiescent => combine_button = "normal" /\ progress = "stopped")

\* C11 happens: two runs have ended, each reported once, their callbacks have
\* run and their message boxes are closed, and the window is at rest again
C11_Witness ==
  /\ quiescent
  /\ dialogs = <<>>
  /\ Len(threads) >= 2
  /\ \A t \in DOMAIN threads : threads[t].reports = 1
  /\ combine_button = "normal"
  /\ progress = "stopped"

\* C12 as stated: at most one run is in progress at any time
C12_AtMostOneRun == Cardinality(running) <= 1

=============================================================================
